---- MODULE Spec2Model ----
(***************************************************************************)
(* Model of seq2seq/inference/inference.py:                                *)
(*   create_predictions_iter  - a generator that flattens the batches a    *)
(*                              session returns into single predictions,   *)
(*                              inside a QueueRunners context;             *)
(*   unk_replace              - replaces UNK tokens by the source token    *)
(*                              with the highest attention score.          *)
(* The generator is modelled with its program counter, so that a step of   *)
(* the model is one statement of the generator body; the consumer is the   *)
(* code that calls next() and close() on the generator object.             *)
(***************************************************************************)
EXTENDS Integers, Sequences, FiniteSets, TLC

\* ---------------------------------------------------------------- bounds
\* the session returns at most MaxBatches batches before it is exhausted
MaxBatches == 3
\* the largest first dimension of a fetched array
MaxSize == 3
\* sess.run is called at most MaxPolls times (never binding in the code:
\* the loop leaves after the first poll that raises)
MaxPolls == MaxBatches + 2
\* longest source_tokens and widest attention_scores of a call of unk_replace
MaxS == 3
\* longest predicted_tokens and tallest attention_scores
MaxT == 2
\* attention scores are drawn from 0..MaxScore
MaxScore == 1
\* the mapping file read by get_unk_mapping has at most MaxLines lines
MaxLines == 3

\* ------------------------------------------------- create_predictions_iter
VARIABLES
  pc,            \* position of the generator body
  feeding,       \* the queue runners of the QueueRunners context
  source,        \* the session's input queues: open, exhausted or faulted
  predictions_,  \* the batch fetched last
  batch_length,  \* first dimension of the first fetched array
  i,             \* loop index of the for loop (0-based)
  exc,           \* exception in flight inside the generator body
  polled,        \* history: batches returned by sess.run, in order
  polls,         \* history: number of calls of sess.run
  emitted,       \* history: elements yielded to the consumer, in order
  outcome,       \* how the generator ended, as seen by the consumer
  consumer,      \* "active": will call next() again; "stopped": will not
  requested,     \* history: calls of next() that started or resumed the body
\* ------------------------------------------------------------- unk_replace
  source_tokens,
  predicted_tokens,
  attention_scores,
  mapping,
  unk_pc,        \* "input" before the call, "returned" after it
  unk_result,    \* what the call returned or raised
\* --------------------------------------------------------- get_unk_mapping
  lines,         \* mapping_file.readlines(): each line a sequence of characters
  map_pc,        \* "input" before the call, "returned" after it
  map_result     \* the dictionary the call returned, or the error it raised

iterVars == <<pc, feeding, source, predictions_, batch_length, i, exc,
              polled, polls, emitted, outcome, consumer, requested>>
unkVars == <<source_tokens, predicted_tokens, attention_scores, mapping,
             unk_pc, unk_result>>
mapVars == <<lines, map_pc, map_result>>
vars == <<iterVars, unkVars, mapVars>>

\* keys of predictions_dict; FirstField is the key list(...values())[0] reads
Fields == {"tokens", "scores"}
FirstField == "tokens"

\* the array the session returns for field f in its b-th batch: n values,
\* each tagged with batch, field and index so that no two are equal
FetchedArray(b, f, n) == [k \in 1..n |-> <<b, f, k - 1>>]

\* value.shape[0]
Shape0(value) == Len(value)

\* as Slice, counting the index from the end of each array
SliceFromEnd(batch, k) == [f \in Fields |-> batch[f][Len(batch[f]) - k]]

\* {key: value[i] for key, value in predictions_.items()}
Slice(batch, k) == [f \in Fields |-> batch[f][k + 1]]

\* value[i] raises IndexError for some value of the batch
SliceFails(batch, k) == \E f \in Fields : k >= Shape0(batch[f])

\* the generator is suspended or finished: control is with the consumer
Suspended == {"created", "yield", "done"}

NoBatch == [f \in Fields |-> <<>>]

\* as IterInit, with the body started by the call of the function
IterInitEager ==
  /\ pc = "with_enter"
  /\ feeding = "notstarted"
  /\ source = "open"
  /\ predictions_ = NoBatch
  /\ batch_length = 0
  /\ i = 0
  /\ exc = "none"
  /\ polled = <<>>
  /\ polls = 0
  /\ emitted = <<>>
  /\ outcome = "none"
  /\ consumer = "active"
  /\ requested = 0

IterInit ==
  /\ pc = "created"
  /\ feeding = "notstarted"
  /\ source = "open"
  /\ predictions_ = NoBatch
  /\ batch_length = 0
  /\ i = 0
  /\ exc = "none"
  /\ polled = <<>>
  /\ polls = 0
  /\ emitted = <<>>
  /\ outcome = "none"
  /\ consumer = "active"
  /\ requested = 0

\* as NextIndex, leaving out every other index
SkipIndex(k) == k + 2

\* the index range(batch_length) gives after k
NextIndex(k) == k + 1

\* next(iterator): starts the body, resumes it after a yield, or raises
\* StopIteration at once when the generator has finished
Pull ==
  /\ consumer = "active"
  /\ pc \in Suspended
  /\ \/ /\ pc = "created"
        /\ pc' = "with_enter"
        /\ i' = i
        /\ requested' = requested + 1
     \/ /\ pc = "yield"
        /\ pc' = "for"
        /\ i' = NextIndex(i)
        /\ requested' = requested + 1
     \/ /\ pc = "done"
        /\ pc' = pc
        /\ i' = i
        /\ requested' = requested
  /\ UNCHANGED <<feeding, source, predictions_, batch_length, exc,
                 polled, polls, emitted, outcome, consumer>>
  /\ UNCHANGED <<unkVars, mapVars>>

\* as EnterResult, without starting the queue runners
EnterNoStart(f) == f

\* the state of the queue runners after QueueRunners.__enter__
EnterResult(f) == "running"

\* with tf.contrib.slim.queues.QueueRunners(sess):
EnterWith ==
  /\ pc = "with_enter"
  /\ feeding' = EnterResult(feeding)
  /\ pc' = "sess_run"
  /\ UNCHANGED <<source, predictions_, batch_length, i, exc,
                 polled, polls, emitted, outcome, consumer, requested>>
  /\ UNCHANGED <<unkVars, mapVars>>

\* predictions_ = sess.run(predictions_dict) returns a batch;
\* batch_length = list(predictions_.values())[0].shape[0]; the for loop starts
SessRunBatch ==
  /\ pc = "sess_run"
  /\ source = "open"
  /\ polls < MaxPolls
  /\ Len(polled) < MaxBatches
  /\ \E n1 \in 0..MaxSize, n2 \in 0..MaxSize :
       LET b == Len(polled) + 1
           batch == [f \in Fields |->
                       FetchedArray(b, f, IF f = FirstField THEN n1 ELSE n2)]
       IN /\ predictions_' = batch
          /\ polled' = Append(polled, batch)
          /\ batch_length' = Shape0(batch[FirstField])
  /\ polls' = polls + 1
  /\ i' = 0
  /\ pc' = "for"
  /\ UNCHANGED <<feeding, source, exc, emitted, outcome, consumer, requested>>
  /\ UNCHANGED <<unkVars, mapVars>>

\* as AfterOutOfRange, without the except clause: the error propagates
OutOfRangeUncaught == [pc |-> "with_exit", exc |-> "OutOfRangeError"]

\* as AfterOutOfRange, with continue in place of break
OutOfRangeContinue == [pc |-> "sess_run", exc |-> "none"]

\* where the body continues when sess.run raises tf.errors.OutOfRangeError:
\* the except clause breaks out of the while loop, no exception is left
AfterOutOfRange == [pc |-> "with_exit", exc |-> "none"]

\* sess.run raises tf.errors.OutOfRangeError
SessRunOutOfRange ==
  /\ pc = "sess_run"
  /\ source \in {"open", "exhausted"}
  /\ polls < MaxPolls
  /\ source' = "exhausted"
  /\ polls' = polls + 1
  /\ pc' = AfterOutOfRange.pc
  /\ exc' = AfterOutOfRange.exc
  /\ UNCHANGED <<feeding, predictions_, batch_length, i,
                 polled, emitted, outcome, consumer, requested>>
  /\ UNCHANGED <<unkVars, mapVars>>

\* as AfterFault, with the error swallowed and the poll retried
FaultRetry == [pc |-> "sess_run", exc |-> "none"]

\* where the body continues when sess.run raises another error: no except
\* clause matches, the exception leaves the while loop and the with block
AfterFault == [pc |-> "with_exit", exc |-> "ExecutionFault"]

\* sess.run raises an error that is not OutOfRangeError
SessRunFault ==
  /\ pc = "sess_run"
  /\ source \in {"open", "faulted"}
  /\ polls < MaxPolls
  /\ source' = "faulted"
  /\ polls' = polls + 1
  /\ pc' = AfterFault.pc
  /\ exc' = AfterFault.exc
  /\ UNCHANGED <<feeding, predictions_, batch_length, i,
                 polled, emitted, outcome, consumer, requested>>
  /\ UNCHANGED <<unkVars, mapVars>>

\* as AfterFor, with an empty batch taken for the end of the input
AfterForEndOnEmpty(n) == IF n = 0 THEN "with_exit" ELSE "sess_run"

\* where the body continues when range(batch_length) is used up: at the
\* next round of the while loop
AfterFor(n) == "sess_run"

\* for i in range(batch_length): yield {key: value[i] ...}
ForStep ==
  /\ pc = "for"
  /\ IF i < batch_length
     THEN IF SliceFails(predictions_, i)
          THEN /\ exc' = "IndexError"
               /\ pc' = "with_exit"
               /\ emitted' = emitted
          ELSE /\ emitted' = Append(emitted, Slice(predictions_, i))
               /\ pc' = "yield"
               /\ exc' = exc
     ELSE /\ pc' = AfterFor(batch_length)
          /\ exc' = exc
          /\ emitted' = emitted
  /\ UNCHANGED <<feeding, source, predictions_, batch_length, i,
                 polled, polls, outcome, consumer, requested>>
  /\ UNCHANGED <<unkVars, mapVars>>

\* as ExitResult, leaving the queue runners as they are
ExitLeak(f) == f

\* the state of the queue runners after QueueRunners.__exit__
ExitResult(f) == "stopped"

\* the with block is left: by break, by an exception or by GeneratorExit
WithExit ==
  /\ pc = "with_exit"
  /\ feeding' = ExitResult(feeding)
  /\ pc' = "finish"
  /\ UNCHANGED <<source, predictions_, batch_length, i, exc,
                 polled, polls, emitted, outcome, consumer, requested>>
  /\ UNCHANGED <<unkVars, mapVars>>

\* the generator function returns or raises to the consumer
Finish ==
  /\ pc = "finish"
  /\ pc' = "done"
  /\ outcome' = IF exc = "none" THEN "StopIteration"
                ELSE IF exc = "GeneratorExit" THEN "closed"
                ELSE exc
  /\ exc' = "none"
  /\ UNCHANGED <<feeding, source, predictions_, batch_length, i,
                 polled, polls, emitted, consumer, requested>>
  /\ UNCHANGED <<unkVars, mapVars>>

\* the consumer stops calling next() and keeps the iterator
Stop ==
  /\ consumer = "active"
  /\ pc \in Suspended
  /\ consumer' = "stopped"
  /\ UNCHANGED <<pc, feeding, source, predictions_, batch_length, i, exc,
                 polled, polls, emitted, outcome, requested>>
  /\ UNCHANGED <<unkVars, mapVars>>

\* iterator.close(), called by the consumer or by the finalizer of the
\* generator object: GeneratorExit is raised at the yield
Close ==
  /\ pc \in {"created", "yield"}
  /\ consumer' = "stopped"
  /\ \/ /\ pc = "created"
        /\ pc' = "done"
        /\ outcome' = "closed"
        /\ exc' = exc
     \/ /\ pc = "yield"
        /\ pc' = "with_exit"
        /\ exc' = "GeneratorExit"
        /\ outcome' = outcome
  /\ UNCHANGED <<feeding, source, predictions_, batch_length, i,
                 polled, polls, emitted, requested>>
  /\ UNCHANGED <<unkVars, mapVars>>

\* the statements the generator body executes on its own once resumed
GenStep ==
  \/ EnterWith
  \/ SessRunBatch
  \/ SessRunOutOfRange
  \/ SessRunFault
  \/ ForStep
  \/ WithExit
  \/ Finish

\* ------------------------------------------------------------- unk_replace
SourceVocab == {"a", "b"}
TargetVocab == {"UNK", "a"}
MappedVocab == {"A"}

SeqsUpTo(S, n) == UNION {[1..m -> S] : m \in 0..n}

\* numeric arrays of shape [rows, cols]
Arrays(maxRows, maxCols) ==
  UNION {[1..r -> [1..c -> 0..MaxScore]] : r \in 0..maxRows, c \in 0..maxCols}

\* mapping=None, or a dictionary from source tokens to target tokens
Mappings ==
  {[isNone |-> TRUE, dict |-> <<>>]} \cup
  {[isNone |-> FALSE, dict |-> d] :
     d \in UNION {[K -> MappedVocab] : K \in SUBSET SourceVocab}}

Min(a, b) == IF a < b THEN a ELSE b

\* as Replaces, with a later equal score replacing the best one
ReplacesOnTie(score, best) == score >= best

\* the comparison np.argmax scans with: a later score replaces the best one
\* only when it is strictly greater
Replaces(score, best) == score > best

RECURSIVE ArgMaxFrom(_, _, _)
ArgMaxFrom(scores, j, best) ==
  IF j > Len(scores) THEN best
  ELSE ArgMaxFrom(scores, j + 1,
                  IF Replaces(scores[j], scores[best]) THEN j ELSE best)

\* np.argmax(scores) of a non-empty row, as a 0-based index
ArgMax(scores) == ArgMaxFrom(scores, 2, 1) - 1

\* zip(predicted_tokens, attention_scores) stops at the shorter of the two
ZipLen(pred, att) == Min(Len(pred), Len(att))

Raised(e) == [err |-> e, out |-> <<>>, idx |-> <<>>]

\* as NewTarget, without the lookup in the mapping
NewTargetUnmapped(map, chosen_source_token) == chosen_source_token

\* new_target: mapping[chosen_source_token] when a mapping is given and has
\* that key, chosen_source_token otherwise
NewTarget(map, chosen_source_token) ==
  IF ~map.isNone /\ chosen_source_token \in DOMAIN map.dict
  THEN map.dict[chosen_source_token]
  ELSE chosen_source_token

\* as KeptToken, with the mapping applied to every token
KeptTokenMapped(map, token) ==
  IF ~map.isNone /\ token \in DOMAIN map.dict THEN map.dict[token] ELSE token

\* the token appended in the else branch: the predicted token itself
KeptToken(map, token) == token

\* the for loop of unk_replace from its t-th iteration on; result holds the
\* tokens appended so far and idx the max_score_index of every iteration
\* (-1 where the token is not UNK)
RECURSIVE UnkLoop(_, _, _, _, _, _, _)
UnkLoop(src, pred, att, map, t, result, idx) ==
  IF t > ZipLen(pred, att)
  THEN [err |-> "none", out |-> result, idx |-> idx]
  ELSE IF pred[t] = "UNK"
       THEN IF Len(att[t]) = 0
            THEN Raised("ValueError")
            ELSE LET max_score_index == ArgMax(att[t]) IN
                 IF max_score_index >= Len(src)
                 THEN Raised("IndexError")
                 ELSE LET chosen_source_token == src[max_score_index + 1]
                          new_target == NewTarget(map, chosen_source_token)
                      IN UnkLoop(src, pred, att, map, t + 1,
                                 Append(result, new_target),
                                 Append(idx, max_score_index))
       ELSE UnkLoop(src, pred, att, map, t + 1,
                    Append(result, KeptToken(map, pred[t])), Append(idx, -1))

\* unk_replace(source_tokens, predicted_tokens, attention_scores, mapping)
UnkReplace(src, pred, att, map) == UnkLoop(src, pred, att, map, 1, <<>>, <<>>)

UnkInit ==
  /\ source_tokens \in SeqsUpTo(SourceVocab, MaxS)
  /\ predicted_tokens \in SeqsUpTo(TargetVocab, MaxT)
  /\ attention_scores \in Arrays(MaxT, MaxS)
  /\ mapping \in Mappings
  /\ unk_pc = "input"
  /\ unk_result = [err |-> "none", out |-> <<>>, idx |-> <<>>]

\* one call of unk_replace on the inputs of the state
CallUnkReplace ==
  /\ unk_pc = "input"
  /\ unk_result' = UnkReplace(source_tokens, predicted_tokens,
                              attention_scores, mapping)
  /\ unk_pc' = "returned"
  /\ UNCHANGED <<source_tokens, predicted_tokens, attention_scores, mapping>>
  /\ UNCHANGED <<iterVars, mapVars>>

UnkIdle ==
  /\ source_tokens = <<>>
  /\ predicted_tokens = <<>>
  /\ attention_scores = <<>>
  /\ mapping = [isNone |-> TRUE, dict |-> <<>>]
  /\ unk_pc = "input"
  /\ unk_result = [err |-> "none", out |-> <<>>, idx |-> <<>>]

\* --------------------------------------------------------- get_unk_mapping
\* characters that str.strip() removes
Whitespace == {" ", "TAB", "NL"}

\* the fields the lines of a mapping file are written with
SourceFields == {<<"a">>, <<" ", "a">>, <<"b">>, <<>>}
TargetFields == {<<"x">>, <<"y", " ">>}
ExtraFields == {<<"z">>}

\* the lines a mapping file can hold, as readlines() returns them: one, two
\* or three fields joined by tab characters, and the line terminator
FileLines ==
  {k \o <<"NL">> : k \in SourceFields}
  \cup {k \o <<"TAB">> \o v \o <<"NL">> : k \in SourceFields, v \in TargetFields}
  \cup {k \o <<"TAB">> \o v \o <<"TAB">> \o e \o <<"NL">> :
          k \in SourceFields, v \in TargetFields, e \in ExtraFields}

\* str.split("\t"): the pieces of the line between its tab characters
RECURSIVE SplitFrom(_, _, _, _)
SplitFrom(line, j, piece, pieces) ==
  IF j > Len(line) THEN Append(pieces, piece)
  ELSE IF line[j] = "TAB"
       THEN SplitFrom(line, j + 1, <<>>, Append(pieces, piece))
       ELSE SplitFrom(line, j + 1, Append(piece, line[j]), pieces)

Split(line) == SplitFrom(line, 1, <<>>, <<>>)

\* as FirstTwo, with a missing second field taken as empty
FirstTwoPadded(fields) ==
  IF Len(fields) < 2 THEN <<fields[1], <<>>>> ELSE SubSeq(fields, 1, 2)

\* the slice [0:2]
FirstTwo(fields) == SubSeq(fields, 1, Min(2, Len(fields)))

\* str.strip()
RECURSIVE LStrip(_)
LStrip(str) ==
  IF str # <<>> /\ Head(str) \in Whitespace THEN LStrip(Tail(str)) ELSE str

RECURSIVE RStrip(_)
RStrip(str) ==
  IF str # <<>> /\ str[Len(str)] \in Whitespace
  THEN RStrip(SubSeq(str, 1, Len(str) - 1))
  ELSE str

Strip(str) == RStrip(LStrip(str))

\* d[key] = value on a dictionary kept as the sequence of its items in
\* insertion order: a key that is present keeps its place
SetItem(items, key, value) ==
  IF \E n \in 1..Len(items) : items[n][1] = key
  THEN [n \in 1..Len(items) |->
          IF items[n][1] = key THEN <<key, value>> ELSE items[n]]
  ELSE Append(items, <<key, value>>)

\* dict(pairs): raises ValueError for an element that is not of length 2
RECURSIVE DictOf(_, _, _)
DictOf(pairs, j, items) ==
  IF j > Len(pairs) THEN [err |-> "none", items |-> items]
  ELSE IF Len(pairs[j]) # 2 THEN [err |-> "ValueError", items |-> <<>>]
       ELSE DictOf(pairs, j + 1, SetItem(items, pairs[j][1], pairs[j][2]))

\* {k.strip(): v.strip() for k, v in mapping.items()}, with the items
\* visited in the given order; the result is a function from keys to values
RECURSIVE StripItems(_, _, _, _)
StripItems(items, order, j, table) ==
  IF j > Len(items) THEN table
  ELSE LET k == Strip(items[order[j]][1])
           v == Strip(items[order[j]][2])
       IN StripItems(items, order, j + 1,
                     [key \in DOMAIN table \cup {k} |->
                        IF key = k THEN v ELSE table[key]])

EmptyTable == [key \in {} |-> <<>>]

\* the order in which mapping.items() visits n items: insertion order
ItemOrders(n) == {[j \in 1..n |-> j]}

\* the body of get_unk_mapping on the lines of the file
GetUnkMapping(fileLines, order) ==
  LET pairs == [n \in 1..Len(fileLines) |-> FirstTwo(Split(fileLines[n]))]
      raw == DictOf(pairs, 1, <<>>)
  IN IF raw.err # "none"
     THEN [err |-> raw.err, table |-> EmptyTable]
     ELSE [err |-> "none",
           table |-> StripItems(raw.items, order, 1, EmptyTable)]

\* the number of items of the dictionary built from the lines
RawSize(fileLines) ==
  Cardinality({Split(fileLines[n])[1] : n \in 1..Len(fileLines)})

MapIdle ==
  /\ lines = <<>>
  /\ map_pc = "input"
  /\ map_result = [err |-> "none", table |-> EmptyTable]

MapInit ==
  /\ lines \in SeqsUpTo(FileLines, MaxLines)
  /\ map_pc = "input"
  /\ map_result = [err |-> "none", table |-> EmptyTable]

\* one call of get_unk_mapping on the file of the state
CallGetUnkMapping ==
  /\ map_pc = "input"
  /\ \E order \in ItemOrders(RawSize(lines)) :
       map_result' = GetUnkMapping(lines, order)
  /\ map_pc' = "returned"
  /\ UNCHANGED lines
  /\ UNCHANGED <<iterVars, unkVars>>

Init == IterInit /\ UnkIdle /\ MapIdle

Next ==
  \/ Pull
  \/ Stop
  \/ Close
  \/ EnterWith
  \/ SessRunBatch
  \/ SessRunOutOfRange
  \/ SessRunFault
  \/ ForStep
  \/ WithExit
  \/ Finish

Spec == Init /\ [][Next]_vars

\* the generator body runs to its next yield once resumed, and a consumer
\* that has not stopped calls next() again
LiveSpec == Spec /\ WF_vars(GenStep) /\ WF_vars(Pull)

InitUnk == IterInit /\ UnkInit /\ MapIdle

NextUnk == CallUnkReplace

SpecUnk == InitUnk /\ [][NextUnk]_vars

InitMap == IterInit /\ UnkIdle /\ MapInit

NextMap == CallGetUnkMapping

SpecMap == InitMap /\ [][NextMap]_vars

\* ------------------------------------------------------------ properties
\* all arrays of a batch have the same first dimension
WellShaped(batch) ==
  \A f \in Fields, g \in Fields : Len(batch[f]) = Len(batch[g])

\* the elements of one well-shaped batch, in index order
BatchRecords(batch) ==
  [k \in 1..Len(batch[FirstField]) |-> [f \in Fields |-> batch[f][k]]]

RECURSIVE Flatten(_)
Flatten(batches) ==
  IF batches = <<>> THEN <<>>
  ELSE BatchRecords(Head(batches)) \o Flatten(Tail(batches))

BatchSizes == [n \in 1..Len(polled) |-> Len(polled[n][FirstField])]

AllWellShaped == \A n \in 1..Len(polled) : WellShaped(polled[n])

\* C1: when the consumer has pulled until the end of the iteration and the
\* session returned well-shaped batches B1..Bn before it was exhausted, the
\* elements received are exactly the elements of B1, in index order, then
\* those of B2, and so on: none reordered, dropped or duplicated.
OrderPreserved ==
  (outcome = "StopIteration" /\ AllWellShaped) =>
     /\ emitted = Flatten(polled)
     /\ \A m \in 1..Len(emitted), n \in 1..Len(emitted) :
          m # n => emitted[m] # emitted[n]

OrderPreservedWitness ==
  /\ outcome = "StopIteration"
  /\ AllWellShaped
  /\ Len(polled) >= 2
  /\ \A n \in 1..Len(polled) : Len(polled[n][FirstField]) >= 2

\* C2: once the generator has ended because the session was exhausted or
\* because an error was raised, the queue runners it started are stopped.
TeardownOnEnd ==
  (pc = "done" /\ outcome \in {"StopIteration", "ExecutionFault", "IndexError"})
     => feeding = "stopped"

TeardownOnEndWitness ==
  /\ pc = "done"
  /\ outcome = "ExecutionFault"
  /\ feeding = "stopped"
  /\ Len(emitted) > 0

\* C3: when the consumer stops calling next() while the queue runners are
\* running, the queue runners are eventually stopped.
CancelTeardown ==
  (consumer = "stopped" /\ feeding = "running") ~> (feeding = "stopped")

\* C4: after sess.run raised OutOfRangeError no exception is in flight and
\* none reaches the consumer, the iteration ends with StopIteration, and no
\* further element is yielded; batches of sizes 2, 0, 3 give 5 elements.
ExhaustionNormal ==
  /\ [](source = "exhausted" =>
          /\ exc = "none"
          /\ outcome \in {"none", "StopIteration"}
          /\ pc = "done" => outcome = "StopIteration"
          /\ (BatchSizes = <<2, 0, 3>> /\ AllWellShaped) => Len(emitted) = 5)
  /\ [][source = "exhausted" => emitted' = emitted]_vars

ExhaustionNormalWitness ==
  /\ source = "exhausted"
  /\ pc = "done"
  /\ outcome = "StopIteration"
  /\ BatchSizes = <<2, 0, 3>>
  /\ AllWellShaped
  /\ Len(emitted) = 5

\* C5: when sess.run raises an error other than OutOfRangeError, that error
\* reaches the consumer, and only once the queue runners are stopped; from
\* the error on no element is yielded and sess.run is not called again.
FaultPropagates ==
  /\ [](outcome = "ExecutionFault" => feeding = "stopped")
  /\ []((source = "faulted" /\ pc = "done") => outcome = "ExecutionFault")
  /\ [][source = "faulted" => (emitted' = emitted /\ polls' = polls)]_vars

FaultPropagatesWitness ==
  /\ source = "faulted"
  /\ outcome = "ExecutionFault"
  /\ pc = "done"
  /\ Len(emitted) > 0

\* C6: when the session returns finitely many batches and then raises, and
\* the consumer keeps calling next(), the generator eventually has ended
\* with its queue runners stopped.
Terminates ==
  [](consumer = "active") => <>(pc = "done" /\ feeding = "stopped")

TerminatesWitness ==
  /\ consumer = "active"
  /\ pc = "done"
  /\ feeding = "stopped"
  /\ Len(polled) >= 2
  /\ Len(emitted) >= 2

\* C7: sess.run is only called while the queue runners are running; the
\* queue runners are started once and stopped once, in that order; once the
\* generator has ended sess.run is not called and the queue runners are not
\* restarted.
ScopedLifecycle ==
  [][/\ polls' # polls => (feeding = "running" /\ feeding' = "running")
     /\ feeding' # feeding =>
          \/ (feeding = "notstarted" /\ feeding' = "running")
          \/ (feeding = "running" /\ feeding' = "stopped")
     /\ pc = "done" => (pc' = "done" /\ polls' = polls /\ feeding' = feeding)
    ]_vars

ScopedLifecycleWitness ==
  /\ pc = "done"
  /\ polls >= 2
  /\ feeding = "stopped"

\* C8: a batch whose arrays differ in their first dimension makes the
\* generator fail: it is the last batch polled, the generator does not go
\* on to poll again after it, and it does not end with StopIteration.
ShapeMismatchFatal ==
  \A n \in 1..Len(polled) :
    ~WellShaped(polled[n]) =>
       /\ n = Len(polled)
       /\ pc # "sess_run"
       /\ outcome # "StopIteration"

\* attention_scores has shape [len(predicted_tokens), len(source_tokens)]
ShapeOK ==
  /\ Len(attention_scores) = Len(predicted_tokens)
  /\ \A t \in 1..Len(attention_scores) :
       Len(attention_scores[t]) = Len(source_tokens)

\* C9: a call of unk_replace whose attention_scores do not have the shape
\* [len(predicted_tokens), len(source_tokens)] raises and returns nothing.
ShapeViolationFatal ==
  (unk_pc = "returned" /\ ~ShapeOK) => unk_result.err # "none"

\* C10: at every position whose predicted token is UNK the source position
\* used is the lowest index that holds the maximum of the attention row, and
\* the token written there comes from the source token at that position;
\* the row 0.5, 0.9, 0.9, 0.1 selects index 1, an all-equal row index 0.
TieBreakLowest ==
  /\ ArgMax(<<5, 9, 9, 1>>) = 1
  /\ ArgMax(<<7, 7, 7>>) = 0
  /\ (unk_pc = "returned" /\ unk_result.err = "none") =>
       \A t \in 1..Len(unk_result.out) :
         predicted_tokens[t] = "UNK" =>
           LET row == attention_scores[t]
               j == unk_result.idx[t] + 1
           IN /\ j \in 1..Len(row)
              /\ \A k \in 1..Len(row) : row[k] <= row[j]
              /\ \A k \in 1..(j - 1) : row[k] < row[j]
              /\ \/ unk_result.out[t] = source_tokens[j]
                 \/ /\ ~mapping.isNone
                    /\ source_tokens[j] \in DOMAIN mapping.dict
                    /\ unk_result.out[t] = mapping.dict[source_tokens[j]]

TieBreakLowestWitness ==
  /\ unk_pc = "returned"
  /\ unk_result.err = "none"
  /\ \E t \in 1..Len(unk_result.out) :
       /\ predicted_tokens[t] = "UNK"
       /\ attention_scores[t] = <<0, 1, 1>>
       /\ unk_result.idx[t] = 1

\* C11: at every position whose predicted token is UNK, with chosen the
\* source token at the argmax of the attention row, the output token is
\* mapping[chosen] when a mapping is given and has chosen as a key, and
\* chosen when the mapping is None or lacks it; source paris, france with
\* row 0.1, 0.9 gives "La France" under {france: La France} and "france"
\* without a mapping.
MappingFallback ==
  /\ UnkReplace(<<"paris", "france">>, <<"UNK", "is", "great">>,
                <<<<1, 9>>, <<5, 5>>, <<5, 5>>>>,
                [isNone |-> FALSE,
                 dict |-> [k \in {"france"} |-> "La France"]]).out
       = <<"La France", "is", "great">>
  /\ UnkReplace(<<"paris", "france">>, <<"UNK", "is", "great">>,
                <<<<1, 9>>, <<5, 5>>, <<5, 5>>>>,
                [isNone |-> TRUE, dict |-> <<>>]).out
       = <<"france", "is", "great">>
  /\ (unk_pc = "returned" /\ unk_result.err = "none") =>
       \A t \in 1..Len(unk_result.out) :
         predicted_tokens[t] = "UNK" =>
           LET chosen == source_tokens[unk_result.idx[t] + 1] IN
             /\ (mapping.isNone \/ chosen \notin DOMAIN mapping.dict)
                  => unk_result.out[t] = chosen
             /\ (~mapping.isNone /\ chosen \in DOMAIN mapping.dict)
                  => unk_result.out[t] = mapping.dict[chosen]

MappingFallbackWitness ==
  /\ unk_pc = "returned"
  /\ unk_result.err = "none"
  /\ ~mapping.isNone
  /\ \E t \in 1..Len(unk_result.out) :
       /\ predicted_tokens[t] = "UNK"
       /\ source_tokens[unk_result.idx[t] + 1] \in DOMAIN mapping.dict
       /\ unk_result.out[t] = "A"
  /\ \E t \in 1..Len(unk_result.out) :
       /\ predicted_tokens[t] = "UNK"
       /\ source_tokens[unk_result.idx[t] + 1] \notin DOMAIN mapping.dict
       /\ unk_result.out[t] = "b"

\* C12: for attention_scores of shape [len(predicted_tokens),
\* len(source_tokens)] a call that returns gives a sequence as long as
\* predicted_tokens in which every token other than UNK is the predicted
\* token, whatever the scores, the source tokens and the mapping; such a call
\* raises only when source_tokens is empty and some predicted token is UNK.
PassThrough ==
  (unk_pc = "returned" /\ ShapeOK) =>
     IF unk_result.err = "none"
     THEN /\ Len(unk_result.out) = Len(predicted_tokens)
          /\ \A t \in 1..Len(predicted_tokens) :
               predicted_tokens[t] # "UNK" =>
                 unk_result.out[t] = predicted_tokens[t]
     ELSE /\ Len(source_tokens) = 0
          /\ \E t \in 1..Len(predicted_tokens) : predicted_tokens[t] = "UNK"

PassThroughWitness ==
  /\ unk_pc = "returned"
  /\ ShapeOK
  /\ unk_result.err = "none"
  /\ ~mapping.isNone
  /\ Len(predicted_tokens) = 2
  /\ predicted_tokens[1] = "UNK"
  /\ predicted_tokens[2] = "a"
  /\ "a" \in DOMAIN mapping.dict
  /\ unk_result.out[2] = "a"

\* C13: every call of unk_replace with empty source_tokens raises.
EmptySourceRejected ==
  (unk_pc = "returned" /\ Len(source_tokens) = 0) => unk_result.err # "none"

\* a line has at least two tab-separated fields
WellFormedLine(line) == \E j \in 1..Len(line) : line[j] = "TAB"

\* the trimmed first and second field of a well-formed line
LineKey(line) == Strip(Split(line)[1])
LineValue(line) == Strip(Split(line)[2])

\* C14: for a file whose lines are all well-formed the table's keys are the
\* trimmed first fields of the lines, and the value of a key is the trimmed
\* second field of the last line with that trimmed first field.
LastLineWins ==
  (map_pc = "returned" /\ \A n \in 1..Len(lines) : WellFormedLine(lines[n])) =>
     /\ map_result.err = "none"
     /\ DOMAIN map_result.table = {LineKey(lines[n]) : n \in 1..Len(lines)}
     /\ \A n \in 1..Len(lines) :
          (\A m \in (n + 1)..Len(lines) : LineKey(lines[m]) # LineKey(lines[n]))
             => map_result.table[LineKey(lines[n])] = LineValue(lines[n])

\* C15: when some line of the file has fewer than two tab-separated fields,
\* wherever it stands, the call raises and returns no table.
MalformedFatal ==
  (map_pc = "returned" /\ \E n \in 1..Len(lines) : ~WellFormedLine(lines[n])) =>
     /\ map_result.err = "ValueError"
     /\ map_result.table = EmptyTable

MalformedFatalWitness ==
  /\ map_pc = "returned"
  /\ Len(lines) = 3
  /\ WellFormedLine(lines[1])
  /\ WellFormedLine(lines[2])
  /\ lines[3] = <<"NL">>
  /\ map_result.err = "ValueError"

\* the elements of a batch that exist in every one of its arrays
SharedRecords(batch) ==
  [k \in 1..Min(Len(batch[FirstField]),
                Len(batch[CHOOSE f \in Fields : f # FirstField])) |->
     [f \in Fields |-> batch[f][k]]]

RECURSIVE FlattenShared(_)
FlattenShared(batches) ==
  IF batches = <<>> THEN <<>>
  ELSE SharedRecords(Head(batches)) \o FlattenShared(Tail(batches))

IsPrefix(p, q) == Len(p) <= Len(q) /\ p = SubSeq(q, 1, Len(p))

\* C17: a batch of size 0 yields nothing, raises nothing and does not end
\* the iteration: the generator goes from it to the next call of sess.run
\* with the queue runners running, so that later batches are still yielded.
EmptyBatchSkipped ==
  [][(pc = "for" /\ batch_length = 0) =>
       /\ pc' = "sess_run"
       /\ emitted' = emitted
       /\ exc' = "none"
       /\ outcome' = "none"
       /\ feeding' = "running"
       /\ polls' = polls]_vars

EmptyBatchSkippedWitness ==
  /\ Len(polled) = 2
  /\ WellShaped(polled[1])
  /\ WellShaped(polled[2])
  /\ BatchSizes = <<0, 2>>
  /\ outcome = "StopIteration"
  /\ Len(emitted) = 2

\* C18: in every state the elements yielded so far are a prefix of the
\* index-ordered elements of the batches polled so far, and no element is
\* yielded twice; whenever the generator polls again, and when a poll has
\* raised, every element of every earlier batch has been yielded.
PrefixInvariant ==
  /\ IsPrefix(emitted, FlattenShared(polled))
  /\ \A m \in 1..Len(emitted), n \in 1..Len(emitted) :
       m # n => emitted[m] # emitted[n]
  /\ (pc = "sess_run" \/ source \in {"exhausted", "faulted"})
        => emitted = FlattenShared(polled)
  /\ Len(polled) <= polls

PrefixInvariantWitness ==
  /\ source = "faulted"
  /\ outcome = "ExecutionFault"
  /\ Len(polled) = 2
  /\ BatchSizes = <<3, 2>>
  /\ Len(emitted) = 5

\* the batches polled so far that had to be polled to serve r requests:
\* those before which fewer than r elements were available
Needed(r) ==
  Cardinality({n \in 1..Len(polled) :
                 Len(FlattenShared(SubSeq(polled, 1, n - 1))) < r})

\* C19: before the first call of next() the queue runners are not started
\* and sess.run is not called; sess.run is called only while a request of
\* the consumer is unserved and every element of the batches polled before
\* has been yielded; the number of polls is at most the number of batches
\* needed for the requests made so far, plus one.
LazyPolling ==
  /\ [](requested = 0 => (feeding = "notstarted" /\ polls = 0))
  /\ [](polls <= Needed(requested) + 1)
  /\ [][polls' # polls =>
          /\ requested > Len(emitted)
          /\ exc = "none"
          /\ emitted = FlattenShared(polled)]_vars

LazyPollingWitness ==
  /\ pc = "yield"
  /\ requested = 3
  /\ Len(emitted) = 3
  /\ BatchSizes = <<2, 0, 2>>
  /\ polls = 3

====
